---- MODULE Spec2Model ----
(***************************************************************************)
(* A model of the CCAM price analysis scripts:                             *)
(*   extract_and_convert.py   convert_dbf_to_df                            *)
(*   ccam_price_evolution.py  CCAMPriceEvolutionAnalyzer                   *)
(*   analyze_pu_base.py       PUBaseAnalyzer                               *)
(*                                                                         *)
(* A DBF file is a record [fields, records]; a DataFrame is a record       *)
(* [columns, rows] whose rows are functions from column names to values.   *)
(* Prices are integers (euros), dates are integers YYYYMMDD.  A float      *)
(* quotient is kept as an exact reduced fraction [num, den].               *)
(***************************************************************************)
EXTENDS Integers, Sequences, FiniteSets, TLC

VARIABLES
    prog,      \* which entry point runs: "ccam" or "pu_base"
    pc,        \* position inside run_full_analysis
    disk,      \* the DBF files of data_path: file name -> [fields, records]
    self,      \* the analyzer object's attributes
    menus,     \* run_full_analysis: the array returned by group_by_menu
    i,         \* run_full_analysis: the loop index of enumerate(menus, 1)
    analysis,  \* run_full_analysis: df_analysis of the last iteration
    out,       \* the report files written so far: file name -> content
    stdout,    \* the values printed so far that the claims read
    err,       \* the exception that ended the run, or NoError
    call       \* the frame of a get_menu_hierarchy_path call

vars == <<prog, pc, disk, self, menus, i, analysis, out, stdout, err, call>>

-----------------------------------------------------------------------------
(* Values *)

\* The missing-value marker of a numeric column (pandas NaN, Python None).
NULL == -1

\* The missing-value marker of a label column after an unmatched left join.
NaNLabel == <<"NaN">>

\* Python None for an object attribute or a local.
None == [columns |-> <<>>, rows |-> <<>>, none |-> TRUE]

NoError == [type |-> "none", msg |-> ""]

\* NaN never compares equal, not even to itself (Series == value).
PyEq(a, b) == a # NULL /\ b # NULL /\ a = b

Range(s) == {s[k] : k \in DOMAIN s}

RECURSIVE Flatten(_)
Flatten(ss) == IF ss = <<>> THEN <<>> ELSE Head(ss) \o Flatten(Tail(ss))

\* The distinct values of a sequence in order of first appearance
\* (Series.unique); all NaN count as one value.
RECURSIVE Unique(_)
Unique(s) ==
    IF s = <<>> THEN <<>>
    ELSE LET init == Unique(SubSeq(s, 1, Len(s) - 1))
             x == s[Len(s)]
         IN IF x \in Range(init) THEN init ELSE Append(init, x)

\* A sequence of characters as a string.
RECURSIVE Str(_)
Str(cs) == IF cs = <<>> THEN "" ELSE Head(cs) \o Str(Tail(cs))

RECURSIVE GCD(_, _)
GCD(a, b) == IF b = 0 THEN a ELSE GCD(b, a % b)

Abs(n) == IF n < 0 THEN 0 - n ELSE n

\* The float n / d * 100 as an exact reduced fraction (d # 0).
Fraction(n, d) ==
    LET s == IF d < 0 THEN 0 - 1 ELSE 1
        g == GCD(Abs(n), Abs(d))
    IN [num |-> (s * n) \div g, den |-> (s * d) \div g]

-----------------------------------------------------------------------------
(* DataFrames *)

DataFrame(columns, rows) == [columns |-> columns, rows |-> rows, none |-> FALSE]

Empty(df) == df.rows = <<>>

\* df[mask]: the rows satisfying P, in order, same columns.
Where(df, P(_)) == DataFrame(df.columns, SelectSeq(df.rows, P))

\* df[[c1, c2, ...]]
Project(df, cols) ==
    DataFrame(cols, [k \in DOMAIN df.rows |-> [c \in Range(cols) |-> df.rows[k][c]]])

RenameKey(r, from, to) ==
    IF from \in DOMAIN r
    THEN [c \in (DOMAIN r \ {from}) \cup {to} |-> IF c = to THEN r[from] ELSE r[c]]
    ELSE r

\* df.rename(columns={from: to})
Rename(df, from, to) ==
    DataFrame([k \in DOMAIN df.columns |->
                  IF df.columns[k] = from THEN to ELSE df.columns[k]],
              [k \in DOMAIN df.rows |-> RenameKey(df.rows[k], from, to)])

\* The row of missing values a left join gives an unmatched left row.
NullRow(cols) ==
    [c \in Range(cols) |-> IF c = "libelle" THEN NaNLabel ELSE NULL]

\* pd.merge(left, right, left_on, right_on, how): for every left row in order,
\* one output row per right row whose key equals the left key; how = "left"
\* keeps a left row that has no match, filled with missing values.
Merge(left, right, left_on, right_on, how) ==
    DataFrame(left.columns \o right.columns,
        Flatten([k \in DOMAIN left.rows |->
            LET l == left.rows[k]
                m == SelectSeq(right.rows, LAMBDA r : r[right_on] = l[left_on])
            IN IF m = <<>> /\ how = "left"
               THEN << l @@ NullRow(right.columns) >>
               ELSE [j \in DOMAIN m |-> l @@ m[j]]]))

-----------------------------------------------------------------------------
(* extract_and_convert.py *)

\* str.lower on the field names of the CCAM tables.
str_lower(name) ==
    CASE name = "COD_ACTE" -> "cod_acte"
      [] name = "MENU_COD" -> "menu_cod"
      [] name = "NOM_COURT" -> "nom_court"
      [] name = "NOM_LONG" -> "nom_long"
      [] name = "COD_AA" -> "cod_aa"
      [] name = "ACTE_COD" -> "acte_cod"
      [] name = "ACTIV_COD" -> "activ_cod"
      [] name = "COD_AAP" -> "cod_aap"
      [] name = "AA_COD" -> "aa_cod"
      [] name = "PHASE_COD" -> "phase_cod"
      [] name = "AAP_COD" -> "aap_cod"
      [] name = "GRILLE_COD" -> "grille_cod"
      [] name = "PU_BASE" -> "pu_base"
      [] name = "APDT_MODIF" -> "apdt_modif"
      [] name = "COD_MENU" -> "cod_menu"
      [] name = "XOD_MENU" -> "xod_menu"
      [] name = "XIBELLE" -> "xibelle"
      [] name = "XOD_PERE" -> "xod_pere"
      [] name = "LIBELLE" -> "libelle"
      [] name = "COD_PERE" -> "cod_pere"
      [] name = "COD_ACTIV" -> "cod_activ"
      [] name = "COD_GRILLE" -> "cod_grille"
      [] OTHER -> name

\* The field of a record whose lower-cased name is c.
FieldOf(rec, c) == CHOOSE f \in DOMAIN rec : str_lower(f) = c

\* convert_dbf_to_df without the else branch of lines 52-53: the frame that
\* pd.DataFrame(iter(dbf)) builds from the records alone.
convert_dbf_to_df_records_only(dbf) ==
    LET column_names == [k \in DOMAIN dbf.fields |-> str_lower(dbf.fields[k])]
    IN IF dbf.records # <<>>
       THEN DataFrame(column_names,
                [k \in DOMAIN dbf.records |->
                    [c \in Range(column_names) |->
                        dbf.records[k][FieldOf(dbf.records[k], c)]]])
       ELSE DataFrame(<<>>, <<>>)

\* convert_dbf_to_df on a file that exists: pd.DataFrame(iter(dbf)) has the
\* records' keys as columns, lower-cased afterwards; a file without records
\* gives an empty frame, which is rebuilt from the lower-cased field names.
convert_dbf_to_df(dbf) ==
    LET column_names == [k \in DOMAIN dbf.fields |-> str_lower(dbf.fields[k])]
    IN IF dbf.records # <<>>
       THEN DataFrame(column_names,
                [k \in DOMAIN dbf.records |->
                    [c \in Range(column_names) |->
                        dbf.records[k][FieldOf(dbf.records[k], c)]]])
       ELSE DataFrame(column_names, <<>>)

\* DBF(path) on a file without a complete header or with a field descriptor
\* that is cut: the structure is unpacked from fewer bytes than it has.
StructError == [type |-> "struct.error", msg |-> "unpack requires a buffer of 32 bytes"]

\* The reader on a numeric field whose bytes are not a number, or on a field
\* descriptor of an unknown type.
ParseError == [type |-> "ValueError", msg |-> "could not convert string to float"]

\* DBF(path) on a file with a field descriptor of a memo type (M, G, P or B)
\* and no memo file beside it: an IOError whose message names the file.
MissingMemoFile(name) == [type |-> "MissingMemoFile", msg |-> name]

\* The kinds of error of the reader on a file that is there. The encoding is
\* always cp850, which decodes every byte: no file gives a decoding error.
ReaderErrors == {"struct.error", "ValueError", "MissingMemoFile"}

\* A file that convert_dbf_to_df cannot read: DBF() or the iteration over the
\* records raises an error of the given kind.
Unreadable(kind) == [header |-> FALSE, raises |-> kind]

\* What convert_dbf_to_df raises on an unreadable file of the given name.
Raised(file, name) ==
    CASE file.raises = "struct.error" -> StructError
      [] file.raises = "ValueError" -> ParseError
      [] file.raises = "MissingMemoFile" -> MissingMemoFile(name)

\* A file of no bytes, or cut inside its header or its field descriptors.
EmptyFile == Unreadable("struct.error")

\* Whether convert_dbf_to_df reads a file: its header, its field descriptors
\* and its records.
IsTable(file) == "fields" \in DOMAIN file

\* An error for a missing file whose message does not name the file.
DBFNotFoundUnnamed(name) == [type |-> "DBFNotFound", msg |-> ""]

\* DBF(path) on a file that does not exist (detect_encoding has caught its own
\* error and answered cp850).
DBFNotFound(name) == [type |-> "DBFNotFound", msg |-> name]

-----------------------------------------------------------------------------
(* ccam_price_evolution.py: CCAMPriceEvolutionAnalyzer *)

\* __init__: the filter criteria.
grilles_filter == <<3, 4, 5, 7, 17, 18>>
activites_filter == <<1, 2, 3, 4>>
phase_filter == 0

\* load_all_tables: the attribute each file is loaded into, in load order.
TableFiles ==
    << <<"df_acte", "R_ACTE.dbf">>,
       <<"df_acte_ivite", "R_ACTE_IVITE.dbf">>,
       <<"df_acte_ivite_phase", "R_ACTE_IVITE_PHASE.dbf">>,
       <<"df_pu_base", "R_PU_BASE.dbf">>,
       <<"df_menu", "R_MENU.dbf">>,
       <<"df_activite", "R_ACTIVITE.dbf">>,
       <<"df_grille", "R_TB23.dbf">> >>

TableAttrs == {TableFiles[k][1] : k \in DOMAIN TableFiles}

\* __init__: every frame attribute is None.
NewAnalyzer ==
    [a \in TableAttrs \cup {"df_merged", "df"} |-> None]

\* The index in load order of the first file for which convert_dbf_to_df
\* raises, one that is not on disk or one that the reader cannot read, or 0.
FirstFailing(d) ==
    LET miss == {k \in DOMAIN TableFiles :
                    \/ TableFiles[k][2] \notin DOMAIN d
                    \/ ~IsTable(d[TableFiles[k][2]])}
    IN IF miss = {} THEN 0 ELSE CHOOSE k \in miss : \A j \in miss : k <= j

\* The analyzer after load_all_tables has loaded the first n files.
Loaded(obj, d, n) ==
    [a \in DOMAIN obj |->
        IF \E k \in 1..n : TableFiles[k][1] = a
        THEN convert_dbf_to_df(d[TableFiles[CHOOSE k \in 1..n : TableFiles[k][1] = a][2]])
        ELSE obj[a]]

\* load_all_tables: the seven files in order; the first file that is missing
\* or that the reader cannot read raises.
LoadAllTables ==
    /\ prog = "ccam"
    /\ pc = "start"
    /\ LET m == FirstFailing(disk)
       IN IF m = 0
          THEN /\ self' = Loaded(self, disk, Len(TableFiles))
               /\ pc' = "loaded"
               /\ err' = err
          ELSE /\ self' = Loaded(self, disk, m - 1)
               /\ pc' = "crashed"
               /\ err' = IF TableFiles[m][2] \notin DOMAIN disk
                         THEN DBFNotFound(TableFiles[m][2])
                         ELSE Raised(disk[TableFiles[m][2]], TableFiles[m][2])
    /\ UNCHANGED <<prog, disk, menus, i, analysis, out, stdout, call>>

\* The dtype of a column of a loaded table is object, and not a numeric one,
\* when no row gives it a number: pd.DataFrame(columns=...) of a table without
\* records has object columns, and so has a column that is None in every record.
ObjectDtype(df, c) == \A k \in DOMAIN df.rows : df.rows[k][c] = NULL

\* The dtype of a code column of a loaded table: int64 when every record has
\* a number, float64 when some have none (NaN), object when none has.
Dtype(df, c) ==
    IF ObjectDtype(df, c) THEN "object"
    ELSE IF \E k \in DOMAIN df.rows : df.rows[k][c] = NULL THEN "float64"
    ELSE "int64"

\* Whether pd.merge refuses the key columns: not when just one of the frames
\* has no row, nor when both keys are numeric or both object; a numeric key
\* and an object one are refused, unless the numeric one is int64 and the
\* object one has no row (both are then inferred as possibly boolean). loaded
\* is the table the left key was loaded in: a join keeps the dtype of a
\* column.
KeysRefused(left, loaded, left_on, right, right_on) ==
    LET l == Dtype(loaded, left_on)
        r == Dtype(right, right_on)
        numeric == IF l = "object" THEN r ELSE l
        none == IF l = "object" THEN left.rows = <<>> ELSE right.rows = <<>>
    IN /\ (left.rows = <<>>) = (right.rows = <<>>)
       /\ (l = "object") # (r = "object")
       /\ ~(numeric = "int64" /\ none)

\* df[[...]] or a join key that names a column the frame does not have.
KeyError(name) == [type |-> "KeyError", msg |-> name]

\* pd.merge on a numeric key column and an object one.
MergeValueError == [type |-> "ValueError", msg |-> "You are trying to merge on columns of different dtypes"]

\* What pd.merge(left, right[selected], left_on, right_on) raises, or NoError:
\* a selected column or a key that is missing, or key columns that it refuses.
JoinRaises(left, loaded, left_on, right, right_on, selected) ==
    LET absent == SelectSeq(selected, LAMBDA c : c \notin Range(right.columns))
    IN IF absent # <<>> THEN KeyError(Head(absent))
       ELSE IF right_on \notin Range(right.columns) THEN KeyError(right_on)
       ELSE IF left_on \notin Range(left.columns) THEN KeyError(left_on)
       ELSE IF KeysRefused(left, loaded, left_on, right, right_on)
       THEN MergeValueError
       ELSE NoError

\* merge_tables: the frame after the k-th of the six joins.
RECURSIVE MergeStep(_, _)
MergeStep(obj, k) ==
    CASE k = 1 -> Merge(obj.df_acte_ivite, obj.df_acte, "acte_cod", "cod_acte", "inner")
      [] k = 2 -> Merge(MergeStep(obj, 1), obj.df_acte_ivite_phase, "cod_aa", "aa_cod", "inner")
      [] k = 3 -> Merge(MergeStep(obj, 2), obj.df_pu_base, "cod_aap", "aap_cod", "inner")
      [] k = 4 -> Rename(Merge(MergeStep(obj, 3),
                               Project(obj.df_menu, <<"cod_menu", "libelle", "cod_pere">>),
                               "menu_cod", "cod_menu", "left"),
                         "libelle", "menu_libelle")
      [] k = 5 -> Rename(Merge(MergeStep(obj, 4), obj.df_activite,
                               "activ_cod", "cod_activ", "left"),
                         "libelle", "activite_libelle")
      [] k = 6 -> Rename(Merge(MergeStep(obj, 5),
                               Project(obj.df_grille, <<"cod_grille", "libelle">>),
                               "grille_cod", "cod_grille", "left"),
                         "libelle", "grille_libelle")

\* merge_tables: what the k-th join raises once the joins before it have
\* returned, or NoError.
MergeRaises(obj, k) ==
    CASE k = 1 -> JoinRaises(obj.df_acte_ivite, obj.df_acte_ivite, "acte_cod",
                             obj.df_acte, "cod_acte", <<>>)
      [] k = 2 -> JoinRaises(MergeStep(obj, 1), obj.df_acte_ivite, "cod_aa",
                             obj.df_acte_ivite_phase, "aa_cod", <<>>)
      [] k = 3 -> JoinRaises(MergeStep(obj, 2), obj.df_acte_ivite_phase, "cod_aap",
                             obj.df_pu_base, "aap_cod", <<>>)
      [] k = 4 -> JoinRaises(MergeStep(obj, 3), obj.df_acte, "menu_cod",
                             obj.df_menu, "cod_menu", <<"cod_menu", "libelle", "cod_pere">>)
      [] k = 5 -> JoinRaises(MergeStep(obj, 4), obj.df_acte_ivite, "activ_cod",
                             obj.df_activite, "cod_activ", <<>>)
      [] k = 6 -> JoinRaises(MergeStep(obj, 5), obj.df_pu_base, "grille_cod",
                             obj.df_grille, "cod_grille", <<"cod_grille", "libelle">>)

\* The first of the joins k..6 that raises, or 0.
RECURSIVE FirstRaising(_, _)
FirstRaising(obj, k) ==
    IF k > 6 THEN 0
    ELSE IF MergeRaises(obj, k) # NoError THEN k
    ELSE FirstRaising(obj, k + 1)

\* merge_tables: the frames after the six joins, in order, when none raises.
MergeSteps(obj) == [k \in 1..6 |-> MergeStep(obj, k)]

\* merge_tables: the joins in order, the row count printed after each; a join
\* that raises ends the run, and df_merged is not assigned.
MergeTables ==
    /\ prog = "ccam"
    /\ pc = "loaded"
    /\ LET m == FirstRaising(self, 1)
       IN IF m = 0
          THEN /\ self' = [self EXCEPT !.df_merged = MergeStep(self, 6)]
               /\ stdout' = [stdout EXCEPT
                                !.joins = [k \in 1..6 |-> Len(MergeStep(self, k).rows)]]
               /\ pc' = "merged"
               /\ err' = err
          ELSE /\ self' = self
               /\ stdout' = [stdout EXCEPT
                                !.joins = [k \in 1..(m - 1) |-> Len(MergeStep(self, k).rows)]]
               /\ pc' = "crashed"
               /\ err' = MergeRaises(self, m)
    /\ UNCHANGED <<prog, disk, menus, i, analysis, out, call>>

\* Series.isin(values): a missing value is in no list.
isin(x, values) == x # NULL /\ x \in Range(values)

\* apply_filters without its activity filter.
FilterStepsNoActivity(df) ==
    LET f1 == Where(df, LAMBDA r : isin(r.grille_cod, grilles_filter))
        f3 == Where(f1, LAMBDA r : PyEq(r.phase_cod, phase_filter))
    IN <<f1, f1, f3>>

\* apply_filters that also leaves out the first of the rows it selected.
FilterStepsSkipFirst(df) ==
    LET f1 == Where(df, LAMBDA r : isin(r.grille_cod, grilles_filter))
        f2 == Where(f1, LAMBDA r : isin(r.activ_cod, activites_filter))
        f3 == Where(f2, LAMBDA r : PyEq(r.phase_cod, phase_filter))
    IN <<f1, f2, IF f3.rows = <<>> THEN f3 ELSE DataFrame(f3.columns, Tail(f3.rows))>>

\* apply_filters: the frame after each of the three filters, in order.
FilterSteps(df) ==
    LET f1 == Where(df, LAMBDA r : isin(r.grille_cod, grilles_filter))
        f2 == Where(f1, LAMBDA r : isin(r.activ_cod, activites_filter))
        f3 == Where(f2, LAMBDA r : PyEq(r.phase_cod, phase_filter))
    IN <<f1, f2, f3>>

ApplyFilters ==
    /\ prog = "ccam"
    /\ pc = "merged"
    /\ LET steps == FilterSteps(self.df_merged)
       IN /\ self' = [self EXCEPT !.df_merged = steps[3]]
          /\ stdout' = [stdout EXCEPT
                           !.filters = <<Len(self.df_merged.rows)>> \o
                                       [k \in 1..3 |-> Len(steps[k].rows)]]
    /\ pc' = "filtered"
    /\ UNCHANGED <<prog, disk, menus, i, analysis, out, err, call>>

\* apply_filters called once more on the analyzer it has already filtered: the
\* same statements, on the df_merged that the earlier call left.
ApplyFiltersAgain ==
    /\ prog = "ccam"
    /\ pc \in {"filtered", "refiltered"}
    /\ LET steps == FilterSteps(self.df_merged)
       IN /\ self' = [self EXCEPT !.df_merged = steps[3]]
          /\ stdout' = [stdout EXCEPT
                           !.filters = <<Len(self.df_merged.rows)>> \o
                                       [k \in 1..3 |-> Len(steps[k].rows)]]
    /\ pc' = "refiltered"
    /\ UNCHANGED <<prog, disk, menus, i, analysis, out, err, call>>

\* group_by_menu: the distinct menu codes of the filtered frame.
group_by_menu(obj) ==
    Unique([k \in DOMAIN obj.df_merged.rows |-> obj.df_merged.rows[k].menu_cod])

GroupByMenu ==
    /\ prog = "ccam"
    /\ pc = "filtered"
    /\ menus' = group_by_menu(self)
    /\ i' = 1
    /\ pc' = "loop"
    /\ UNCHANGED <<prog, disk, self, analysis, out, stdout, err, call>>

\* The (first, last) rows that df.sort_values('apdt_modif') can put at iloc[0]
\* and iloc[-1]: the default sort is not stable, so rows with equal dates may
\* come out in any order.
FirstLast(rows) ==
    LET n == Len(rows)
        lo == {a \in 1..n : \A k \in 1..n : rows[a].apdt_modif <= rows[k].apdt_modif}
        hi == {b \in 1..n : \A k \in 1..n : rows[b].apdt_modif >= rows[k].apdt_modif}
    IN {<<rows[p[1]], rows[p[2]]>> : p \in {q \in lo \X hi : n = 1 \/ q[1] # q[2]}}

\* The float a / b (inf or nan when b = 0).
Quotient(a, b) == IF b = 0 THEN [num |-> a, den |-> 0] ELSE Fraction(a, b)

Zero == [num |-> 0, den |-> 1]

\* evolution_pct of a result row (line 257), without its guard.
evolution_pct_unguarded(first, last) ==
    Quotient((last.pu_base - first.pu_base) * 100, first.pu_base)

\* evolution_pct of a result row (line 257).
evolution_pct(first, last) ==
    IF first.pu_base # 0
    THEN Quotient((last.pu_base - first.pu_base) * 100, first.pu_base)
    ELSE Zero

\* The rows of df_grille for a grid code (line 251, right operand).
GrilleRows(obj, grille) ==
    SelectSeq(obj.df_grille.rows, LAMBDA r : PyEq(r.cod_grille, grille))

\* Whether line 251 has to look the grid up in df_grille.
NeedsLookup(acte_info, grille) == ~PyEq(grille, acte_info.grille_cod)

\* The result dictionary of one (acte, grille) pair, lines 244-259.
ResultRow(obj, acte, acte_info, grille, df_acte_grille, fl) ==
    [cod_acte |-> acte,
     nom_court |-> acte_info.nom_court,
     nom_long |-> acte_info.nom_long,
     activite |-> acte_info.activ_cod,
     activite_libelle |-> acte_info.activite_libelle,
     grille_cod |-> grille,
     grille_libelle |-> IF NeedsLookup(acte_info, grille)
                        THEN GrilleRows(obj, grille)[1].libelle
                        ELSE acte_info.grille_libelle,
     date_premiere_modif |-> fl[1].apdt_modif,
     prix_initial |-> fl[1].pu_base,
     date_derniere_modif |-> fl[2].apdt_modif,
     prix_actuel |-> fl[2].pu_base,
     evolution_euros |-> fl[2].pu_base - fl[1].pu_base,
     evolution_pct |-> evolution_pct(fl[1], fl[2]),
     nb_modifications |-> Len(df_acte_grille)]

ResultColumns ==
    <<"cod_acte", "nom_court", "nom_long", "activite", "activite_libelle",
      "grille_cod", "grille_libelle", "date_premiere_modif", "prix_initial",
      "date_derniere_modif", "prix_actuel", "evolution_euros", "evolution_pct",
      "nb_modifications">>

\* The rows of the filtered frame for a menu (line 213).
MenuRows(obj, menu_cod) ==
    SelectSeq(obj.df_merged.rows, LAMBDA r : PyEq(r.menu_cod, menu_cod))

\* The (acte, grille) pairs the two loops of lines 226-236 visit with a
\* non-empty df_acte_grille, in visiting order.
Pairs(obj, menu_cod) ==
    LET df_menu == MenuRows(obj, menu_cod)
        actes == Unique([k \in DOMAIN df_menu |-> df_menu[k].cod_acte])
    IN Flatten([a \in DOMAIN actes |->
          LET df_acte == SelectSeq(df_menu, LAMBDA r : PyEq(r.cod_acte, actes[a]))
              all == [g \in DOMAIN grilles_filter |->
                        [acte |-> actes[a],
                         acte_info |-> df_acte[1],
                         grille |-> grilles_filter[g],
                         rows |-> SelectSeq(df_acte,
                             LAMBDA r : PyEq(r.grille_cod, grilles_filter[g]))]]
          IN SelectSeq(all, LAMBDA p : p.rows # <<>>)])

\* Every list of results the loops can build from the pairs, one row per pair.
RECURSIVE Results(_, _)
Results(obj, pairs) ==
    IF pairs = <<>> THEN {<<>>}
    ELSE LET p == Head(pairs)
         IN {<<ResultRow(obj, p.acte, p.acte_info, p.grille, p.rows, fl)>> \o rest :
                fl \in FirstLast(p.rows), rest \in Results(obj, Tail(pairs))}

IndexError == [type |-> "IndexError", msg |-> "single positional indexer is out-of-bounds"]

\* Whether analyze_price_evolution_for_menu raises: .iloc[0] on an empty
\* selection of df_grille (line 251).
AnalyzeRaises(obj, menu_cod) ==
    \E k \in DOMAIN Pairs(obj, menu_cod) :
        LET p == Pairs(obj, menu_cod)[k]
        IN NeedsLookup(p.acte_info, p.grille) /\ GrilleRows(obj, p.grille) = <<>>

\* analyze_price_evolution_for_menu, when it returns: the values it can return.
analyze_price_evolution_for_menu(obj, menu_cod) ==
    IF MenuRows(obj, menu_cod) = <<>>
    THEN {None}
    ELSE {DataFrame(ResultColumns, rs) : rs \in Results(obj, Pairs(obj, menu_cod))}

-----------------------------------------------------------------------------
(* get_menu_hierarchy_path, lines 183-197 *)

\* The rows of df_menu for a menu code (lines 189 and 270).
MenuInfo(obj, menu_cod) ==
    SelectSeq(obj.df_menu.rows, LAMBDA r : PyEq(r.cod_menu, menu_cod))

\* The greatest number of entries a walk collects before the model stops
\* following it (a walk over parent pointers that form a cycle never ends).
MaxPathLen == 4

\* Whether the cod_pere column is float64 (it holds a missing value).
FloatPere(obj) ==
    \E k \in DOMAIN obj.df_menu.rows : obj.df_menu.rows[k].cod_pere = NULL

\* str() of current inside the f-string of line 192: the argument as it was
\* passed, a value read from cod_pere with the column's dtype.
PyStrCurrent(obj, frame) ==
    IF frame.path # <<>> /\ FloatPere(obj)
    THEN ToString(frame.current) \o ".0" ELSE ToString(frame.current)

\* path.append(entry), in place of line 192.
PathAppend(path, entry) == path \o <<entry>>

\* Line 192: path.insert(0, entry).
PathInsert(path, entry) == <<entry>> \o path

\* " > ".join(path)
RECURSIVE Join(_)
Join(path) ==
    IF path = <<>> THEN ""
    ELSE IF Len(path) = 1 THEN path[1]
    ELSE path[1] \o " > " \o Join(Tail(path))

\* The call: path = [], current = menu_cod.  The frame also keeps, next to
\* path, the codes its entries were made for (visited), newest first.
PathCall ==
    /\ prog = "ccam"
    /\ pc = "loaded"
    /\ call.pc \in {"idle", "returned"}
    /\ \E menu_cod \in {0, 1, 2, 3, NULL} :
          call' = [pc |-> "loop", menu_cod |-> menu_cod, current |-> menu_cod,
                   path |-> <<>>, visited |-> <<>>, ret |-> ""]
    /\ UNCHANGED <<prog, pc, disk, self, menus, i, analysis, out, stdout, err>>

\* One test of the while condition and, when it holds, one pass of the body;
\* otherwise, or on break, the return statement of line 197.
PathStep ==
    /\ prog = "ccam"
    /\ call.pc = "loop"
    /\ Len(call.path) < MaxPathLen
    /\ LET menu_row == MenuInfo(self, call.current)
       IN IF call.current # 0 /\ call.current # NULL /\ menu_row # <<>>
          THEN call' = [call EXCEPT
                  !.path = PathInsert(call.path,
                              PyStrCurrent(self, call) \o "_" \o Str(menu_row[1].libelle)),
                  !.visited = <<call.current>> \o call.visited,
                  !.current = menu_row[1].cod_pere]
          ELSE call' = [call EXCEPT
                  !.pc = "returned",
                  !.ret = IF call.path # <<>> THEN Join(call.path) ELSE "SANS_MENU"]
    /\ UNCHANGED <<prog, pc, disk, self, menus, i, analysis, out, stdout, err>>

-----------------------------------------------------------------------------
(* export_menu_to_excel *)

\* The characters of the model's labels, and those str.isalnum accepts.
\* "e'" is the accented letter e-acute of the French labels: one character,
\* alphanumeric for str.isalnum.
Chars == {"A", "b", "7", "e'", " ", "-", "_", "/", ":", "."}
AlnumChars == {"A", "b", "7", "e'"}
isalnum(c) == c \in AlnumChars

\* The longest file-name stem taken from a label (line 277).
MaxNameLen == 100

\* Line 276, keeping every character.
SanitizeNone(libelle) == libelle

\* Line 276: every character that is not alphanumeric, a space, a hyphen or an
\* underscore becomes an underscore.
Sanitize(libelle) ==
    [k \in DOMAIN libelle |->
        IF isalnum(libelle[k]) \/ libelle[k] \in {" ", "-", "_"}
        THEN libelle[k] ELSE "_"]

\* Line 277: menu_name[:100].
Truncate(name) ==
    IF Len(name) <= MaxNameLen THEN name ELSE SubSeq(name, 1, MaxNameLen)

\* Whether the menu_cod column of the frames is float64: a column read with a
\* missing value holds floats, and joins and filters keep its dtype.
FloatMenuCod(obj) == \E k \in DOMAIN obj.df_acte.rows : obj.df_acte.rows[k].menu_cod = NULL

\* str() of a menu code inside an f-string.
PyStr(obj, menu_cod) ==
    IF menu_cod = NULL THEN "nan"
    ELSE IF FloatMenuCod(obj) THEN ToString(menu_cod) \o ".0" ELSE ToString(menu_cod)

\* Lines 270-279 without the code in front of the name.
FileNameOfLabel(obj, menu_cod) ==
    LET menu_info == MenuInfo(obj, menu_cod)
        menu_name == IF menu_info = <<>>
                     THEN "Menu_" \o PyStr(obj, menu_cod)
                     ELSE Str(Truncate(Sanitize(menu_info[1].libelle)))
    IN menu_name \o ".xlsx"

\* Lines 270-279: the name of the spreadsheet of a menu.
FileName(obj, menu_cod) ==
    LET menu_info == MenuInfo(obj, menu_cod)
        menu_name == IF menu_info = <<>>
                     THEN "Menu_" \o PyStr(obj, menu_cod)
                     ELSE Str(Truncate(Sanitize(menu_info[1].libelle)))
    IN PyStr(obj, menu_cod) \o "_" \o menu_name \o ".xlsx"

\* The number of rows of the Top_evolutions sheet (line 298).
TopN == 20

\* DataFrame.nlargest(n, column): the n rows with the largest values, largest
\* first, equal values in their original order.
RECURSIVE nlargest(_, _, _)
nlargest(rows, n, column) ==
    IF n = 0 \/ rows = <<>> THEN <<>>
    ELSE LET k == CHOOSE a \in DOMAIN rows :
                     /\ \A b \in DOMAIN rows : rows[b][column] <= rows[a][column]
                     /\ \A b \in 1..(a - 1) : rows[b][column] < rows[a][column]
         IN <<rows[k]>> \o
            nlargest(SubSeq(rows, 1, k - 1) \o SubSeq(rows, k + 1, Len(rows)),
                     n - 1, column)

\* Lines 282-299: the three sheets.  Stats_par_grille is kept as the set of its
\* groups with their Nb_actes (groupby drops a group whose label is missing);
\* its rounded means are not modelled.
Workbook(df_analysis) ==
    [Evolution_prix |-> df_analysis,
     Stats_par_grille |->
        {[grille_cod |-> r.grille_cod, grille_libelle |-> r.grille_libelle,
          Nb_actes |-> Cardinality({k \in DOMAIN df_analysis.rows :
                          /\ df_analysis.rows[k].grille_cod = r.grille_cod
                          /\ df_analysis.rows[k].grille_libelle = r.grille_libelle})] :
            r \in {x \in Range(df_analysis.rows) :
                      x.grille_cod # NULL /\ x.grille_libelle # NaNLabel}},
     Top_evolutions |->
        Project(DataFrame(df_analysis.columns,
                          nlargest(df_analysis.rows, TopN, "evolution_euros")),
                <<"cod_acte", "nom_court", "grille_cod", "prix_initial",
                  "prix_actuel", "evolution_euros", "evolution_pct">>)]

\* A file written (created or replaced) on disk.
Written(files, name, content) ==
    [n \in DOMAIN files \cup {name} |-> IF n = name THEN content ELSE files[n]]

OSError(name) == [type |-> "OSError", msg |-> name]

-----------------------------------------------------------------------------
(* run_full_analysis, lines 326-342 *)

\* One iteration of the loop over the menus: analysis, then export.  Nothing
\* in the loop catches an exception: an error of the analysis or of the write
\* ends the run.
ProcessMenu ==
    /\ prog = "ccam"
    /\ pc = "loop"
    /\ i <= Len(menus)
    /\ LET menu_cod == menus[i]
       IN IF AnalyzeRaises(self, menu_cod)
          THEN /\ pc' = "crashed"
               /\ err' = IndexError
               /\ UNCHANGED <<i, analysis, out>>
          ELSE \E df_analysis \in analyze_price_evolution_for_menu(self, menu_cod) :
                 /\ analysis' = df_analysis
                 /\ IF ~df_analysis.none /\ ~Empty(df_analysis)
                    THEN \E writable \in BOOLEAN :
                           IF writable
                           THEN /\ out' = Written(out, FileName(self, menu_cod),
                                                  Workbook(df_analysis))
                                /\ i' = i + 1
                                /\ UNCHANGED <<pc, err>>
                           ELSE /\ pc' = "crashed"
                                /\ err' = OSError(FileName(self, menu_cod))
                                /\ UNCHANGED <<i, out>>
                    ELSE /\ i' = i + 1
                         /\ UNCHANGED <<pc, err, out>>
    /\ UNCHANGED <<prog, disk, self, menus, stdout, call>>

\* Lines 340-342: the final summary prints total_menus = len(menus).
Finish ==
    /\ prog = "ccam"
    /\ pc = "loop"
    /\ i > Len(menus)
    /\ stdout' = [stdout EXCEPT !.summary = Len(menus)]
    /\ pc' = "done"
    /\ UNCHANGED <<prog, disk, self, menus, i, analysis, out, err, call>>

NextCCAM ==
    \/ LoadAllTables
    \/ MergeTables
    \/ ApplyFilters
    \/ GroupByMenu
    \/ ProcessMenu
    \/ Finish

-----------------------------------------------------------------------------
(* analyze_pu_base.py: PUBaseAnalyzer *)

FileNotFoundError(name) == [type |-> "FileNotFoundError", msg |-> name]

\* load_data: the existence test, then the conversion.
LoadData ==
    /\ prog = "pu_base"
    /\ pc = "start"
    /\ IF "R_PU_BASE.dbf" \notin DOMAIN disk
       THEN /\ pc' = "crashed"
            /\ err' = FileNotFoundError("R_PU_BASE.dbf")
            /\ self' = self
       ELSE IF ~IsTable(disk["R_PU_BASE.dbf"])
       THEN /\ pc' = "crashed"
            /\ err' = Raised(disk["R_PU_BASE.dbf"], "R_PU_BASE.dbf")
            /\ self' = self
       ELSE /\ pc' = "load_data"
            /\ err' = err
            /\ self' = [self EXCEPT !.df = convert_dbf_to_df(disk["R_PU_BASE.dbf"])]
    /\ UNCHANGED <<prog, disk, menus, i, analysis, out, stdout, call>>

\* print_statistics only prints; self.df[...] of lines 46-49 raises for the
\* first of its columns that the table does not have.
PrintStatistics ==
    /\ prog = "pu_base"
    /\ pc = "load_data"
    /\ LET absent == SelectSeq(<<"aap_cod", "grille_cod", "pu_base">>,
                               LAMBDA c : c \notin Range(self.df.columns))
       IN IF absent # <<>>
          THEN pc' = "crashed" /\ err' = KeyError(Head(absent))
          ELSE pc' = "print_statistics" /\ err' = err
    /\ UNCHANGED <<prog, disk, self, menus, i, analysis, out, stdout, call>>

\* The values of a set of integers in ascending order (groupby sorts its keys).
RECURSIVE Sorted(_)
Sorted(S) ==
    IF S = {} THEN <<>>
    ELSE LET m == CHOOSE x \in S : \A y \in S : x <= y
         IN <<m>> \o Sorted(S \ {m})

ColumnValues(rows, column) == {rows[k][column] : k \in DOMAIN rows}

SetMin(S) == CHOOSE x \in S : \A y \in S : x <= y
SetMax(S) == CHOOSE x \in S : \A y \in S : x >= y

\* df.groupby(key): the rows of each key value, keys ascending.
GroupBy(rows, key) ==
    LET keys == Sorted(ColumnValues(rows, key))
    IN [k \in DOMAIN keys |->
          [key |-> keys[k], rows |-> SelectSeq(rows, LAMBDA r : r[key] = keys[k])]]

\* analyze_by_grille: the statistics per grid (the count, the extremes and the
\* number of distinct procedures; the rounded mean, median and deviation are
\* not modelled).
grille_stats(df) ==
    LET groups == GroupBy(df.rows, "grille_cod")
    IN [k \in DOMAIN groups |->
          [grille_cod |-> groups[k].key,
           Nb_entrees |-> Len(groups[k].rows),
           Prix_min |-> SetMin(ColumnValues(groups[k].rows, "pu_base")),
           Prix_max |-> SetMax(ColumnValues(groups[k].rows, "pu_base")),
           Nb_actes_uniques |-> Cardinality(ColumnValues(groups[k].rows, "aap_cod"))]]

AnalyzeByGrille ==
    /\ prog = "pu_base"
    /\ pc = "print_statistics"
    /\ out' = Written(out, "analyse_par_grille.csv", grille_stats(self.df))
    /\ pc' = "analyze_by_grille"
    /\ UNCHANGED <<prog, disk, self, menus, i, analysis, stdout, err, call>>

\* DataFrame.nlargest on a column of object dtype.
NlargestTypeError ==
    [type |-> "TypeError", msg |-> "Column 'pu_base' has dtype object, cannot use method 'nlargest'"]

\* top_actes_by_price(n=20): nlargest of line 94 raises when pu_base has the
\* object dtype, as in the frame of a table without records, and nothing is
\* written; then [[...]] raises for a column the table does not have.
TopActesByPrice ==
    /\ prog = "pu_base"
    /\ pc = "analyze_by_grille"
    /\ LET selected == <<"aap_cod", "grille_cod", "pu_base", "apdt_modif">>
           absent == SelectSeq(selected, LAMBDA c : c \notin Range(self.df.columns))
       IN IF ObjectDtype(self.df, "pu_base")
          THEN pc' = "crashed" /\ err' = NlargestTypeError /\ out' = out
          ELSE IF absent # <<>>
          THEN pc' = "crashed" /\ err' = KeyError(Head(absent)) /\ out' = out
          ELSE /\ out' = Written(out, "top_20_actes_plus_chers.csv",
                            Project(DataFrame(self.df.columns,
                                              nlargest(self.df.rows, TopN, "pu_base")),
                                    selected))
               /\ pc' = "top_actes_by_price"
               /\ err' = err
    /\ UNCHANGED <<prog, disk, self, menus, i, analysis, stdout, call>>

\* Series.replace([inf, -inf], 0): an infinite value becomes 0, nan stays.
ReplaceInf(q) == IF q.den = 0 /\ q.num # 0 THEN Zero ELSE q

\* analyze_by_acte: the statistics per procedure with the two variation columns
\* (lines 121-132; the rounded mean and deviation are not modelled).
acte_stats(df) ==
    LET groups == GroupBy(df.rows, "aap_cod")
    IN [k \in DOMAIN groups |->
          LET lo == SetMin(ColumnValues(groups[k].rows, "pu_base"))
              hi == SetMax(ColumnValues(groups[k].rows, "pu_base"))
          IN [aap_cod |-> groups[k].key,
              Nb_grilles_present |-> Len(groups[k].rows),
              Prix_min |-> lo,
              Prix_max |-> hi,
              Nb_grilles_uniques |-> Cardinality(ColumnValues(groups[k].rows, "grille_cod")),
              Variation_prix |-> hi - lo,
              Variation_pct |-> ReplaceInf(Quotient((hi - lo) * 100, lo))]]

AnalyzeByActe ==
    /\ prog = "pu_base"
    /\ pc = "top_actes_by_price"
    /\ out' = Written(Written(out, "analyse_par_acte.csv", acte_stats(self.df)),
                      "top_variations_prix.csv",
                      nlargest(acte_stats(self.df), TopN, "Variation_prix"))
    /\ pc' = "analyze_by_acte"
    /\ UNCHANGED <<prog, disk, self, menus, i, analysis, stdout, err, call>>

\* Series.dt.year of a date YYYYMMDD.
Year(date) == date \div 10000

\* Lines 159-166: apdt_modif becomes a datetime column (the same dates) and the
\* column annee_modif is added to self.df itself.
WithYears(df) ==
    DataFrame(IF "annee_modif" \in Range(df.columns)
              THEN df.columns ELSE Append(df.columns, "annee_modif"),
              [k \in DOMAIN df.rows |->
                  [c \in DOMAIN df.rows[k] \cup {"annee_modif"} |->
                      IF c = "annee_modif" THEN Year(df.rows[k].apdt_modif)
                      ELSE df.rows[k][c]]])

modifs_par_an(df) ==
    LET groups == GroupBy(df.rows, "annee_modif")
    IN [k \in DOMAIN groups |->
          [annee_modif |-> groups[k].key, Nb_modifications |-> Len(groups[k].rows)]]

AnalyzeTemporal ==
    /\ prog = "pu_base"
    /\ pc = "analyze_by_acte"
    /\ self' = [self EXCEPT !.df = WithYears(self.df)]
    /\ out' = Written(out, "analyse_temporelle.csv", modifs_par_an(WithYears(self.df)))
    /\ pc' = "analyze_temporal"
    /\ UNCHANGED <<prog, disk, menus, i, analysis, stdout, err, call>>

\* export_full_data writes self.df as it is now.
ExportFullData ==
    /\ prog = "pu_base"
    /\ pc = "analyze_temporal"
    /\ out' = Written(out, "pu_base_complete.csv", self.df)
    /\ pc' = "done"
    /\ UNCHANGED <<prog, disk, self, menus, i, analysis, stdout, err, call>>

NextPU ==
    \/ LoadData
    \/ PrintStatistics
    \/ AnalyzeByGrille
    \/ TopActesByPrice
    \/ AnalyzeByActe
    \/ AnalyzeTemporal
    \/ ExportFullData

-----------------------------------------------------------------------------
(* extract_and_convert.py: extract_zip_files, list_dbf_files, main *)

\* The names of a directory that data_path.glob("*.zip") matches.
ZipFileNames == {"ccam_a.zip", "ccam_b.zip"}

\* The *.dbf names of the model in the order sorted() gives them ('.' sorts
\* before '_', 'E' before 'I').
SortedDbfNames ==
    <<"R_ACTE.dbf", "R_ACTE_IVITE.dbf", "R_ACTE_IVITE_PHASE.dbf", "R_ACTIVITE.dbf",
      "R_MENU.dbf", "R_PU_BASE.dbf", "R_TB23.dbf">>

\* What is left of the target of a damaged member that fails before its
\* target is opened (a local header that zipfile refuses): nothing is written.
NotOpened == [opened |-> FALSE]

\* An archive file: its members <<name, file>> in archive order; whether
\* zipfile can open it; the index of the member that is damaged (0 when none
\* is); and what the extraction of that member leaves in its target: NotOpened
\* when it raises before the target is opened, else the file that the copy has
\* written when the CRC test raises.
Zip(members, readable, damaged, left) ==
    [members |-> members, readable |-> readable, damaged |-> damaged, left |-> left]

\* Whether ZipFile(...) and extractall return without raising.
Extracts(zip) == zip.readable /\ zip.damaged = 0

\* The directory after zip_ref.extractall(data_path), whether it returns or
\* raises: the members are written in archive order, each in place of a file
\* of the same name; a damaged member raises, either before its target is
\* opened, and the target stays as it was, there or not, or after, and the
\* target holds what was copied; the members after it are not written.
extractall(d, zip) ==
    LET whole == IF zip.damaged = 0 THEN Len(zip.members) ELSE zip.damaged - 1
        names == {zip.members[k][1] : k \in 1..whole}
        cut == IF zip.damaged = 0 \/ zip.left = NotOpened
               THEN {} ELSE {zip.members[zip.damaged][1]}
    IN [n \in DOMAIN d \cup names \cup cut |->
          IF n \in cut THEN zip.left
          ELSE IF n \in names
          THEN zip.members[CHOOSE k \in 1..whole : zip.members[k][1] = n][2]
          ELSE d[n]]

\* The loop of lines 65-72 over the archives in the order zip_files lists
\* them: an exception of ZipFile or of extractall is caught and printed, and
\* what extractall had written by then stays.
RECURSIVE ExtractEach(_, _)
ExtractEach(d, zip_files) ==
    IF zip_files = <<>> THEN d
    ELSE ExtractEach(IF d[Head(zip_files)].readable
                     THEN extractall(d, d[Head(zip_files)]) ELSE d,
                     Tail(zip_files))

\* The orders in which glob can list a set of names: it promises none.
GlobOrders(names) ==
    {order \in [1..Cardinality(names) -> names] :
        \A j, k \in DOMAIN order : j # k => order[j] # order[k]}

\* extract_zip_files: every archive of data_path is extracted into data_path;
\* stdout keeps, per archive, whether it was extracted.
ExtractZipFiles ==
    /\ prog = "extract"
    /\ pc = "start"
    /\ \E zip_files \in GlobOrders(DOMAIN disk \cap ZipFileNames) :
          /\ disk' = ExtractEach(disk, zip_files)
          /\ stdout' = [stdout EXCEPT
                           !.zips = [k \in DOMAIN zip_files |->
                                        <<zip_files[k], Extracts(disk[zip_files[k]])>>]]
    /\ pc' = "extracted"
    /\ UNCHANGED <<prog, self, menus, i, analysis, out, err, call>>

\* list_dbf_files: the *.dbf files of data_path, sorted.
list_dbf_files(d) == SelectSeq(SortedDbfNames, LAMBDA n : n \in DOMAIN d)

ListDbfFiles ==
    /\ prog = "extract"
    /\ pc = "extracted"
    /\ stdout' = [stdout EXCEPT !.dbf_files = list_dbf_files(disk)]
    /\ pc' = "listed"
    /\ UNCHANGED <<prog, disk, self, menus, i, analysis, out, err, call>>

\* What a process has printed when it starts: nothing.
NoStdout ==
    [joins |-> <<>>, filters |-> <<>>, summary |-> NULL, zips |-> <<>>, dbf_files |-> <<>>]

\* One of the two analyses is started on the directory the extraction left:
\* a new process, whose analyzer is constructed on data_path.
RunAnalysis ==
    /\ prog = "extract"
    /\ pc = "listed"
    /\ prog' \in {"ccam", "pu_base"}
    /\ pc' = "start"
    /\ self' = NewAnalyzer
    /\ stdout' = NoStdout
    /\ UNCHANGED <<disk, menus, i, analysis, out, err, call>>

NextExtract ==
    \/ ExtractZipFiles
    \/ ListDbfFiles
    \/ RunAnalysis

-----------------------------------------------------------------------------
(* The input files *)

Dbf(fields, records) == [fields |-> fields, records |-> records]

\* Two procedures; m1 and m2 are their menu codes.
R_ACTE(m1, m2) ==
    Dbf(<<"COD_ACTE", "MENU_COD", "NOM_COURT", "NOM_LONG">>,
        << [COD_ACTE |-> 100, MENU_COD |-> m1, NOM_COURT |-> <<"A">>, NOM_LONG |-> <<"A", "b">>],
           [COD_ACTE |-> 200, MENU_COD |-> m2, NOM_COURT |-> <<"b">>, NOM_LONG |-> <<"b", "7">>] >>)

\* Activity 5 is outside the activity filter.
R_ACTE_IVITE ==
    Dbf(<<"COD_AA", "ACTE_COD", "ACTIV_COD">>,
        << [COD_AA |-> 10, ACTE_COD |-> 100, ACTIV_COD |-> 1],
           [COD_AA |-> 20, ACTE_COD |-> 200, ACTIV_COD |-> 2],
           [COD_AA |-> 30, ACTE_COD |-> 200, ACTIV_COD |-> 5] >>)

\* Phase 1 is outside the phase filter.
R_ACTE_IVITE_PHASE ==
    Dbf(<<"COD_AAP", "AA_COD", "PHASE_COD">>,
        << [COD_AAP |-> 11, AA_COD |-> 10, PHASE_COD |-> 0],
           [COD_AAP |-> 12, AA_COD |-> 10, PHASE_COD |-> 1],
           [COD_AAP |-> 21, AA_COD |-> 20, PHASE_COD |-> 0],
           [COD_AAP |-> 31, AA_COD |-> 30, PHASE_COD |-> 0] >>)

PuFields == <<"AAP_COD", "GRILLE_COD", "PU_BASE", "APDT_MODIF">>

Pu(aap, grille, price, date) ==
    [AAP_COD |-> aap, GRILLE_COD |-> grille, PU_BASE |-> price, APDT_MODIF |-> date]

\* All sequences over S of length at most n.
SeqsUpTo(S, n) == UNION {[1..k -> S] : k \in 0..n}

MenuFields == <<"COD_MENU", "LIBELLE", "COD_PERE">>

MenuRec(cod, libelle, pere) ==
    [COD_MENU |-> cod, LIBELLE |-> libelle, COD_PERE |-> pere]

R_MENU ==
    Dbf(MenuFields,
        << MenuRec(1, <<"A", "/", "b">>, 0), MenuRec(2, <<"b", ":", " ", "7">>, 1) >>)

ActiviteFields == <<"COD_ACTIV", "LIBELLE">>

ActiviteRec(cod, libelle) == [COD_ACTIV |-> cod, LIBELLE |-> libelle]

R_ACTIVITE ==
    Dbf(ActiviteFields, << ActiviteRec(1, <<"A">>), ActiviteRec(2, <<"b">>) >>)

GrilleFields == <<"COD_GRILLE", "LIBELLE">>

\* The grid table with a row for each of the given codes.
R_TB23(codes) ==
    Dbf(GrilleFields,
        [k \in DOMAIN codes |-> [COD_GRILLE |-> codes[k], LIBELLE |-> <<"7", "-", "A">>]])

Files(acte, pu, menu, activite, grille) ==
    [n \in {TableFiles[k][2] : k \in DOMAIN TableFiles} |->
        CASE n = "R_ACTE.dbf" -> acte
          [] n = "R_ACTE_IVITE.dbf" -> R_ACTE_IVITE
          [] n = "R_ACTE_IVITE_PHASE.dbf" -> R_ACTE_IVITE_PHASE
          [] n = "R_PU_BASE.dbf" -> pu
          [] n = "R_MENU.dbf" -> menu
          [] n = "R_ACTIVITE.dbf" -> activite
          [] n = "R_TB23.dbf" -> grille]

\* A directory without one of its files.
Without(files, name) == [n \in DOMAIN files \ {name} |-> files[n]]

IdleCall ==
    [pc |-> "idle", menu_cod |-> NULL, current |-> NULL, path |-> <<>>,
     visited |-> <<>>, ret |-> ""]

\* The state after the constructor, for a directory d.
Constructed(p, d) ==
    /\ prog = p
    /\ pc = "start"
    /\ disk = d
    /\ self = NewAnalyzer
    /\ menus = <<>>
    /\ i = 0
    /\ analysis = None
    /\ out = << >>
    /\ stdout = NoStdout
    /\ err = NoError
    /\ call = IdleCall

\* The greatest number of price records of a run.
MaxPU == 3

\* Runs over the procedures' menus and the kinds of price record: kept by the
\* filters (two grids of procedure 100, one of procedure 200), and dropped by
\* the grid filter, the phase filter or the activity filter.
RunDirs ==
    {Files(R_ACTE(m[1], m[2]), Dbf(PuFields, pu), R_MENU, R_ACTIVITE, R_TB23(g)) :
        m \in {1, 7, NULL} \X {1, 2},
        pu \in SeqsUpTo({Pu(11, 3, 10, 20200101), Pu(11, 4, 10, 20200101),
                         Pu(21, 3, 10, 20200101), Pu(21, 6, 10, 20200101),
                         Pu(12, 3, 10, 20200101), Pu(31, 3, 10, 20200101)}, MaxPU),
        g \in {<<3, 4, 6>>, <<3>>}}

\* The greatest number of price records of one procedure.
MaxPrices == 3

\* Runs over the prices and dates of one procedure in two grids.
PriceDirs ==
    {Files(R_ACTE(1, 2), Dbf(PuFields, pu), R_MENU, R_ACTIVITE, R_TB23(g)) :
        pu \in SeqsUpTo({Pu(11, gr, price, date) :
                            gr \in {3, 4}, price \in {0, 10, 12},
                            date \in {20200101, 20220101}}, MaxPrices),
        g \in {<<3, 4>>, <<3>>}}

\* The greatest number of rows of a lookup table.
MaxLookup == 2

\* Runs over the lookup tables: keys without a row, with one and with several.
LookupDirs ==
    {Files(R_ACTE(1, 2),
           Dbf(PuFields, <<Pu(11, 3, 10, 20200101), Pu(21, 4, 12, 20220101)>>),
           Dbf(MenuFields, menu), Dbf(ActiviteFields, activite), R_TB23(g)) :
        menu \in SeqsUpTo({MenuRec(1, <<"A">>, 0), MenuRec(1, <<"b">>, 0),
                           MenuRec(2, <<"7">>, 1)}, MaxLookup),
        activite \in SeqsUpTo({ActiviteRec(1, <<"A">>), ActiviteRec(2, <<"b">>)}, MaxLookup),
        g \in SeqsUpTo({3, 4}, MaxLookup)}

\* The greatest number of characters that vary at the end of a menu label.
MaxTail == 2

RECURSIVE Repeat(_, _)
Repeat(c, n) == IF n = 0 THEN <<>> ELSE <<c>> \o Repeat(c, n - 1)

\* Menu labels: short ones, and ones around the 100 characters of the cut.
Labels ==
    {Repeat("A", n) \o tail :
        n \in {0, MaxNameLen - 1}, tail \in SeqsUpTo(Chars, MaxTail)} \ {<<>>}

\* Runs over the label of menu 1.
LabelDirs ==
    {Files(R_ACTE(1, m2), Dbf(PuFields, <<Pu(11, 3, 10, 20200101), Pu(21, 3, 10, 20200101)>>),
           Dbf(MenuFields, <<MenuRec(1, l, 0)>>), R_ACTIVITE, R_TB23(<<3>>)) :
        m2 \in {1, 2}, l \in Labels}

BaseDir == Files(R_ACTE(1, 2), Dbf(PuFields, <<>>), R_MENU, R_ACTIVITE, R_TB23(<<3, 4, 6>>))

\* Directories in which one of the seven files is missing.
MissingDirs == {Without(BaseDir, TableFiles[k][2]) : k \in DOMAIN TableFiles}

\* Labels that are equal, or become equal once sanitized or cut.
TwinLabels ==
    {<<"A", "/", "b">>, <<"A", ":", "b">>, <<"A", "_", "b">>, <<"7", "_", "A">>,
     Repeat("A", MaxNameLen) \o <<"b">>, Repeat("A", MaxNameLen) \o <<"7">>}

\* Runs over two menus that both have prices, the codes 1 and 2 or 7 and 77,
\* and over their labels; the second menu may have no row in the menu table.
TwinDirs ==
    {Files(R_ACTE(m[1], m[2]),
           Dbf(PuFields, <<Pu(11, 3, 10, 20200101), Pu(21, 3, 10, 20200101)>>),
           Dbf(MenuFields, menu), R_ACTIVITE, R_TB23(<<3>>)) :
        m \in {<<1, 2>>, <<7, 77>>},
        menu \in {<<MenuRec(7, l1, 0)>> : l1 \in TwinLabels} \cup
                 {<<MenuRec(c[1], l[1], 0), MenuRec(c[2], l[2], 0)>> :
                     c \in {<<1, 2>>, <<7, 77>>}, l \in TwinLabels \X TwinLabels}}

InitCCAM ==
    \E d \in RunDirs \cup PriceDirs \cup LookupDirs \cup LabelDirs \cup TwinDirs
                \cup MissingDirs :
        Constructed("ccam", d)

\* The price tables of the PU_BASE analysis: at least one record.
PuDirs ==
    {[n \in {"R_PU_BASE.dbf"} |-> Dbf(PuFields, pu)] :
        pu \in SeqsUpTo({Pu(aap, pgd[2], pgd[1], pgd[3]) :
                            aap \in {11, 21},
                            pgd \in {<<0, 3, 20200101>>, <<10, 4, 20220101>>,
                                     <<12, 3, 20220101>>}}, MaxPU) \ {<<>>}}

InitPU ==
    \E d \in PuDirs \cup {<< >>} : Constructed("pu_base", d)

\* The tables of the directories in which archives are extracted.
ZipBase ==
    Files(R_ACTE(1, 2), Dbf(PuFields, <<Pu(11, 3, 10, 20200101), Pu(21, 3, 0, 20200101)>>),
          R_MENU, R_ACTIVITE, R_TB23(<<3>>))

\* The character fields of the tables, under their names and under a changed
\* one; the others are numeric.
CharFields == {"LIBELLE", "XIBELLE", "NOM_COURT", "NOM_LONG"}

\* What DBF reads of a record whose bytes end after its first j fields: a
\* character field without bytes is the empty string, a numeric field without
\* its last byte is blank (the one-digit codes of the model are right-aligned)
\* and reads as a missing value.
CutRecord(rec, fields, j) ==
    [f \in DOMAIN rec |->
        IF (CHOOSE k \in DOMAIN fields : fields[k] = f) <= j THEN rec[f]
        ELSE IF f \in CharFields THEN <<>> ELSE NULL]

\* A file that ends with a descriptor of its header: DBF reads the field
\* descriptors up to the end of the file, m of them, and no record.
HeaderCuts(fields) == {Dbf(SubSeq(fields, 1, m), <<>>) : m \in 0..Len(fields)}

\* The files that DBF reads from the first bytes of a table file: one of no
\* complete header, a header with some of its fields, or the whole header with
\* the first records, all of them when only the end mark is missing, the last
\* of them whole or cut.
Cuts(dbf) ==
    {EmptyFile} \cup HeaderCuts(dbf.fields) \cup
    {Dbf(dbf.fields, SubSeq(dbf.records, 1, k)) : k \in 0..Len(dbf.records)} \cup
    {Dbf(dbf.fields, Append(SubSeq(dbf.records, 1, k),
                            CutRecord(dbf.records[k + 1], dbf.fields, j))) :
        k \in 0..(Len(dbf.records) - 1), j \in 0..(Len(dbf.fields) - 1)}

\* The digits a changed byte can put in place of a one-digit code; a space in
\* its place leaves a blank field, read as a missing value.
Digits == 0..9

\* A field name with its first byte changed.
Garbled(name) ==
    CASE name = "COD_MENU" -> "XOD_MENU"
      [] name = "LIBELLE" -> "XIBELLE"
      [] name = "COD_PERE" -> "XOD_PERE"
      [] OTHER -> name

\* The tables that DBF reads from a table file with one byte changed, when it
\* reads one: another digit or none as a code, another first character in a
\* label, a record that is skipped because its deletion flag is no longer a
\* space, or another name for a field.
Changed(dbf) ==
    {Dbf(dbf.fields, [dbf.records EXCEPT ![k][f] = v]) :
        k \in DOMAIN dbf.records, f \in Range(dbf.fields) \ CharFields,
        v \in Digits \cup {NULL}} \cup
    {Dbf(dbf.fields, [dbf.records EXCEPT ![k][f] = <<"7">> \o Tail(@)]) :
        k \in {j \in DOMAIN dbf.records : \A g \in Range(dbf.fields) \cap CharFields :
                                             dbf.records[j][g] # <<>>},
        f \in Range(dbf.fields) \cap CharFields} \cup
    {Dbf(dbf.fields, SubSeq(dbf.records, 1, k - 1) \o
                     SubSeq(dbf.records, k + 1, Len(dbf.records))) :
        k \in DOMAIN dbf.records} \cup
    {Dbf([dbf.fields EXCEPT ![m] = Garbled(@)],
         [k \in DOMAIN dbf.records |->
             [f \in (DOMAIN dbf.records[k] \ {dbf.fields[m]}) \cup {Garbled(dbf.fields[m])} |->
                 IF f = Garbled(dbf.fields[m]) THEN dbf.records[k][dbf.fields[m]]
                 ELSE dbf.records[k][f]]]) :
        m \in DOMAIN dbf.fields}

\* The files that the copy of a damaged member can have left in its target
\* when the CRC test raises, as the reader finds them: the first bytes of the
\* member, which the damage has changed or not, up to a file that no longer
\* parses.
Interrupted(dbf) ==
    Cuts(dbf) \cup UNION {Cuts(c) : c \in Changed(dbf)} \cup
    {Unreadable(e) : e \in ReaderErrors}

\* The menu table of the first archive.
ZipMenu == Dbf(MenuFields, <<MenuRec(1, <<"A">>, 0), MenuRec(2, <<"b">>, 1)>>)

\* The first archive holds a menu table: sound or not an archive at all.
ZipsAWhole == {Zip(<< <<"R_MENU.dbf", ZipMenu>> >>, ok, 0, EmptyFile) : ok \in BOOLEAN}

\* The first archive damaged in its member.
ZipsA ==
    ZipsAWhole \cup
    {Zip(<< <<"R_MENU.dbf", ZipMenu>> >>, TRUE, 1, left) :
        left \in Interrupted(ZipMenu) \cup {NotOpened}}

\* The second archive holds a menu table and a price table: sound, damaged in
\* its second member, or, with the price table first, damaged in its first.
ZipsB ==
    LET menu == <<"R_MENU.dbf", Dbf(MenuFields, <<MenuRec(2, <<"b">>, 1)>>)>>
        pu == <<"R_PU_BASE.dbf", Dbf(PuFields, <<Pu(11, 4, 12, 20220101)>>)>>
    IN {Zip(<<menu, pu>>, TRUE, 0, EmptyFile)} \cup
       {Zip(<<menu, pu>>, TRUE, 2, left) :
           left \in {NotOpened} \cup {Unreadable(e) : e \in ReaderErrors}
                    \cup HeaderCuts(PuFields)} \cup
       {Zip(<<pu, menu>>, TRUE, 1, left) : left \in {NotOpened, EmptyFile}}

\* Directories for the extraction: with or without R_MENU.dbf, with no
\* archive, one or two.
ZipDirs ==
    {[n \in DOMAIN base \cup DOMAIN zips |-> IF n \in DOMAIN zips THEN zips[n] ELSE base[n]] :
        base \in {ZipBase, Without(ZipBase, "R_MENU.dbf")},
        zips \in {<< >>} \cup
                 {[n \in {"ccam_a.zip"} |-> a] : a \in ZipsA} \cup
                 {[n \in {"ccam_b.zip"} |-> b] : b \in ZipsB} \cup
                 {[n \in ZipFileNames |-> IF n = "ccam_a.zip" THEN ab[1] ELSE ab[2]] :
                     ab \in (ZipsAWhole \cup
                             {Zip(<< <<"R_MENU.dbf", ZipMenu>> >>, TRUE, 1, left) :
                                 left \in {NotOpened, EmptyFile}}) \X ZipsB}}

\* main of extract_and_convert.py on an existing data_path.
InitExtract == \E d \in ZipDirs : Constructed("extract", d)

Init == InitCCAM \/ InitPU \/ InitExtract

Next == NextCCAM \/ NextPU \/ NextExtract

Spec == Init /\ [][Next]_vars

\* The greatest number of rows of a menu table whose hierarchy is walked.
MaxMenus == 3

MenuLabel(cod) ==
    CASE cod = 0 -> <<"-">> [] cod = 1 -> <<"A">> [] cod = 2 -> <<"b">> [] OTHER -> <<"7">>

\* Menu tables over a root row for code 0 and rows for the codes 1..3 with a
\* parent in 0..2 or none: chains, rows whose parent has no row, codes with two
\* rows, rows that are their own parent and cycles.
PathDirs ==
    {Files(R_ACTE(1, 2), Dbf(PuFields, <<>>), Dbf(MenuFields, menu), R_ACTIVITE, R_TB23(<<3>>)) :
        menu \in SeqsUpTo({MenuRec(0, MenuLabel(0), 0)} \cup
                          {MenuRec(cod, MenuLabel(cod), pere) :
                              cod \in 1..3, pere \in {0, 1, 2, NULL}}, MaxMenus)}

InitPath == \E d \in PathDirs : Constructed("ccam", d)

NextPath == LoadAllTables \/ PathCall \/ PathStep

SpecPath == InitPath /\ [][NextPath]_vars

\* The analyzer used as a library: the tables are loaded and merged, and
\* apply_filters is called once and then again.
NextFilters == LoadAllTables \/ MergeTables \/ ApplyFilters \/ ApplyFiltersAgain

SpecFilters == InitCCAM /\ [][NextFilters]_vars

-----------------------------------------------------------------------------
(* Properties *)

AfterFilters == prog = "ccam" /\ stdout.filters # <<>>

\* The relation merge_tables built, before the filters.
PreFilter == MergeSteps(self)[6].rows

\* C1: after apply_filters the merged relation holds exactly the rows of the
\* pre-filter relation whose grille_cod is in {3,4,5,7,17,18}, whose activ_cod
\* is in {1,2,3,4} and whose phase_cod is 0, in their order: none of them is
\* dropped and no other row is kept.
C1_FilterKeepsExactlyTheMatchingRows ==
    AfterFilters =>
        self.df_merged.rows =
            SelectSeq(PreFilter, LAMBDA r : /\ r.grille_cod \in {3, 4, 5, 7, 17, 18}
                                            /\ r.activ_cod \in {1, 2, 3, 4}
                                            /\ r.phase_cod = 0)

\* A filtered relation that kept a row, lost one to the activity filter and
\* lost one to the phase filter.
C1_Witness ==
    /\ AfterFilters
    /\ self.df_merged.rows # <<>>
    /\ \E k \in DOMAIN PreFilter : PreFilter[k].activ_cod = 5
    /\ \E k \in DOMAIN PreFilter : PreFilter[k].phase_cod = 1

\* The menu the loop passed to analyze_price_evolution_for_menu last (0 before
\* the first iteration): the one that ended the run, or the one before i.
LastAnalysed ==
    IF prog # "ccam" \/ pc \notin {"loop", "done", "crashed"} THEN 0
    ELSE IF pc = "crashed" THEN (IF err.type \in {"IndexError", "OSError"} THEN i ELSE 0)
    ELSE i - 1

\* The result rows that call emitted: none when it raised.
Emitted ==
    IF pc = "crashed" /\ err.type = "IndexError" THEN <<>> ELSE analysis.rows

\* The rows of the filtered relation of a menu for one (cod_acte, grille_cod).
PairRows(menu_cod, acte, grille) ==
    SelectSeq(self.df_merged.rows,
              LAMBDA r : r.menu_cod = menu_cod /\ r.cod_acte = acte /\ r.grille_cod = grille)

\* What C2 says of the result row of a pair.
RowAsClaimed(row, rows) ==
    /\ \E a \in DOMAIN rows :
          /\ \A k \in DOMAIN rows : rows[a].apdt_modif <= rows[k].apdt_modif
          /\ row.prix_initial = rows[a].pu_base
    /\ \E b \in DOMAIN rows :
          /\ \A k \in DOMAIN rows : rows[b].apdt_modif >= rows[k].apdt_modif
          /\ row.prix_actuel = rows[b].pu_base
    /\ row.evolution_euros = row.prix_actuel - row.prix_initial
    /\ row.prix_initial # 0 =>
          /\ row.evolution_pct.den # 0
          /\ row.evolution_pct.num * row.prix_initial =
                row.evolution_euros * 100 * row.evolution_pct.den
    /\ row.nb_modifications = Len(rows)

\* C2: for every (cod_acte, grille_cod) pair that has a row in the filtered
\* relation of the analysed menu, the analysis emits exactly one result row,
\* with the price of the pair's earliest row as prix_initial, the price of its
\* latest row as prix_actuel, their difference, the percentage relative to
\* prix_initial when that is not 0, and the number of rows of the pair.
C2_OneRowPerPair ==
    LastAnalysed > 0 =>
        LET m == menus[LastAnalysed]
        IN \A r \in Range(self.df_merged.rows) :
              (m # NULL /\ r.menu_cod = m) =>
                 LET rows == PairRows(m, r.cod_acte, r.grille_cod)
                     hits == {k \in DOMAIN Emitted :
                                 /\ Emitted[k].cod_acte = r.cod_acte
                                 /\ Emitted[k].grille_cod = r.grille_cod}
                 IN /\ Cardinality(hits) = 1
                    /\ \A k \in hits : RowAsClaimed(Emitted[k], rows)

\* C3: a result row whose initial price is 0 has evolution_pct exactly 0,
\* whatever its last price, and no percentage is the outcome of a division by
\* zero.
C3_ZeroInitialPriceGivesZeroPct ==
    LastAnalysed > 0 =>
        \A k \in DOMAIN Emitted :
            /\ Emitted[k].evolution_pct.den # 0
            /\ Emitted[k].prix_initial = 0 => Emitted[k].evolution_pct = Zero

\* A result row that starts at price 0 and ends at another price.
C3_Witness ==
    /\ LastAnalysed > 0
    /\ \E k \in DOMAIN Emitted :
          Emitted[k].prix_initial = 0 /\ Emitted[k].prix_actuel # 0

\* merge_tables has come to its left joins: the three inner joins have
\* returned and the fourth join has run.
LeftJoinsRun ==
    prog = "ccam" /\ Len(stdout.joins) >= 3 /\ (pc = "crashed" \/ ~self.df_merged.none)

\* C4 as stated: each of the three left joins of merge_tables gives as many
\* rows as its left input has, whatever the lookup table holds.
C4_LeftJoinKeepsRowCount ==
    LeftJoinsRun =>
        /\ Len(stdout.joins) = 6
        /\ \A k \in 4..6 : stdout.joins[k] = stdout.joins[k - 1]

\* C5 as stated: an error in the analysis or the export of one menu does not
\* keep the other menus that have data from getting their spreadsheet.
C5_LoopContinuesAfterError ==
    (prog = "ccam" /\ pc \in {"done", "crashed"} /\ LastAnalysed > 0) =>
        \A k \in DOMAIN menus :
            (/\ ~(pc = "crashed" /\ k = i)
             /\ MenuRows(self, menus[k]) # <<>>
             /\ ~AnalyzeRaises(self, menus[k]))
            => FileName(self, menus[k]) \in DOMAIN out

\* The table files an entry point needs.
Required ==
    CASE prog = "pu_base" -> {"R_PU_BASE.dbf"}
      [] prog = "ccam" -> {TableFiles[k][2] : k \in DOMAIN TableFiles}
      [] OTHER -> {}

AllLoaded ==
    IF prog = "pu_base" THEN ~self.df.none
    ELSE \A a \in TableAttrs : ~self[a].none

\* The required files that cannot be loaded: missing, or there and not
\* readable.
Unloadable ==
    {n \in Required : n \notin DOMAIN disk \/ "fields" \notin DOMAIN disk[n]}

\* The first of them in load order.
FirstUnloadable ==
    LET ks == {k \in DOMAIN TableFiles : TableFiles[k][2] \in Unloadable}
    IN TableFiles[CHOOSE k \in ks : \A j \in ks : k <= j][2]

\* C6, amended: in both entry points every table load is complete before the
\* first report file is written, and a run with a required file that cannot be
\* loaded ends, with no report written, with the error of the first such file
\* in load order: an error naming the file when it is missing, the error of
\* the reader when it is there and not readable, which names that file when
\* it is MissingMemoFile and no file otherwise.
C6_FirstUnloadableFileAborts ==
    /\ out # << >> => (Unloadable = {} /\ AllLoaded)
    /\ (Unloadable # {} /\ pc # "start") =>
          /\ pc = "crashed"
          /\ out = << >>
          /\ IF FirstUnloadable \notin DOMAIN disk
             THEN /\ err.type \in {"DBFNotFound", "FileNotFoundError"}
                  /\ err.msg = FirstUnloadable
             ELSE /\ err.type = disk[FirstUnloadable].raises
                  /\ err.type \in ReaderErrors
                  /\ IF err.type = "MissingMemoFile"
                     THEN err.msg = FirstUnloadable
                     ELSE err.msg \notin Required

\* C6 as stated: in both entry points every table load is complete before the
\* first report file is written, and a run that lacks a required file ends with
\* an error naming a missing file and has written no report.
C6_LoadsBeforeWrites ==
    /\ out # << >> => (Required \subseteq DOMAIN disk /\ AllLoaded)
    /\ (~(Required \subseteq DOMAIN disk) /\ pc # "start") =>
          /\ pc = "crashed"
          /\ err.type \in {"DBFNotFound", "FileNotFoundError"}
          /\ err.msg \in Required \ DOMAIN disk
          /\ out = << >>

\* A run of the menu analysis stopped by a missing file after it had loaded
\* the files before it.
C6_Witness ==
    /\ prog = "ccam"
    /\ pc = "crashed"
    /\ err = DBFNotFound("R_MENU.dbf")
    /\ ~self.df_pu_base.none
    /\ self.df_menu.none
    /\ out = << >>

\* C7 as stated: on normal completion the count of the summary is the number
\* of spreadsheets written.
C7_SummaryCountsWrittenFiles ==
    (prog = "ccam" /\ pc = "done") => stdout.summary = Cardinality(DOMAIN out)

\* C8 as stated: after load every loaded table keeps its rows and columns, and
\* pu_base_complete.csv holds what load_data produced.
C8_TablesUnchangedAfterLoad ==
    /\ (prog = "pu_base" /\ ~self.df.none) =>
          self.df = convert_dbf_to_df(disk["R_PU_BASE.dbf"])
    /\ (prog = "pu_base" /\ "pu_base_complete.csv" \in DOMAIN out) =>
          out["pu_base_complete.csv"] = convert_dbf_to_df(disk["R_PU_BASE.dbf"])
    /\ prog = "ccam" =>
          \A k \in DOMAIN TableFiles :
              ~self[TableFiles[k][1]].none =>
                  self[TableFiles[k][1]] = convert_dbf_to_df(disk[TableFiles[k][2]])

\* The allowed characters of a file name stem.
Allowed(c) == c \in {"A", "b", "7", "e'", " ", "-", "_"}

\* The stem C10 describes: the first 100 characters of the label, each
\* character outside the allowed set replaced by one underscore.
StemAsClaimed(libelle) ==
    Str([k \in 1..(IF Len(libelle) < 100 THEN Len(libelle) ELSE 100) |->
            IF Allowed(libelle[k]) THEN libelle[k] ELSE "_"])

\* The menus whose spreadsheet the loop has written.
Exported ==
    IF prog # "ccam" \/ pc \notin {"loop", "done", "crashed"} THEN {}
    ELSE {k \in 1..(i - 1) : MenuRows(self, menus[k]) # <<>>}

\* C10: the spreadsheet of a menu that has a row in the menu table is written
\* to '<menu_cod>_<s>.xlsx', s being the label with every character that is
\* not alphanumeric, space, hyphen or underscore replaced by an underscore and
\* cut to its first 100 characters.
C10_FileNameOfLabelledMenu ==
    \A k \in Exported :
        LET info == SelectSeq(self.df_menu.rows, LAMBDA r : r.cod_menu = menus[k])
            code == IF \E a \in DOMAIN self.df_acte.rows : self.df_acte.rows[a].menu_cod = NULL
                    THEN ToString(menus[k]) \o ".0" ELSE ToString(menus[k])
        IN info # <<>> =>
              (code \o "_" \o StemAsClaimed(info[1].libelle) \o ".xlsx") \in DOMAIN out

\* A spreadsheet written for a menu whose label has more than 100 characters
\* and a character to replace among the first 100.
C10_Witness ==
    \E k \in Exported :
        \E r \in Range(self.df_menu.rows) :
            /\ r.cod_menu = menus[k]
            /\ Len(r.libelle) > 100
            /\ \E j \in 1..100 : ~Allowed(r.libelle[j])

\* C11: within one run two distinct menu codes are never exported to the same
\* file name, whether their labels are equal, become equal once sanitized and
\* cut, or are missing from the menu table: the output directory holds one
\* spreadsheet for each menu exported so far, none has replaced another.
C11_DistinctMenusDistinctFiles ==
    /\ \A j, k \in Exported :
          menus[j] # menus[k] => FileName(self, menus[j]) # FileName(self, menus[k])
    /\ prog = "ccam" => Cardinality(DOMAIN out) = Cardinality(Exported)

\* Two menus exported whose labels differ but give the same stem once
\* sanitized and cut.
C11_Witness ==
    \E j, k \in Exported :
        \E r1, r2 \in Range(self.df_menu.rows) :
            /\ menus[j] # menus[k]
            /\ r1.cod_menu = menus[j] /\ r2.cod_menu = menus[k]
            /\ r1.libelle # r2.libelle
            /\ Truncate(Sanitize(r1.libelle)) = Truncate(Sanitize(r2.libelle))
            /\ Cardinality(DOMAIN out) = 2

\* The rows of analyse_par_acte.csv, once analyze_by_acte has written it.
ActeStatsWritten ==
    IF prog = "pu_base" /\ "analyse_par_acte.csv" \in DOMAIN out
    THEN out["analyse_par_acte.csv"] ELSE <<>>

\* C12: in analyze_by_acte every procedure whose minimum price is 0 has a
\* Variation_% of exactly 0, whether its maximum price is positive or 0 too.
C12_ZeroMinimumGivesZeroVariation ==
    \A k \in DOMAIN ActeStatsWritten :
        ActeStatsWritten[k].Prix_min = 0 => ActeStatsWritten[k].Variation_pct = Zero

\* The relation that one call of apply_filters makes of the merged tables.
FilteredOnce == FilterSteps(MergeSteps(self)[6])[3]

\* C13: apply_filters applied again to the relation apply_filters produced
\* leaves the rows as they were: the relation after a repeated call is the
\* relation after the first call, and the repeated call counts the same number
\* of rows before and after each of its three filters.
C13_FilterIdempotent ==
    (prog = "ccam" /\ pc = "refiltered") =>
        /\ self.df_merged = FilteredOnce
        /\ stdout.filters = [k \in 1..4 |-> Len(FilteredOnce.rows)]

\* A repeated call on a relation that kept a row and from which the first
\* call had dropped a row for its grid and a row for its activity.
C13_Witness ==
    /\ prog = "ccam" /\ pc = "refiltered"
    /\ self.df_merged.rows # <<>>
    /\ \E k \in DOMAIN PreFilter : PreFilter[k].grille_cod = 6
    /\ \E k \in DOMAIN PreFilter : PreFilter[k].activ_cod = 5

\* The field names of the table files in lower case.
LowerCased ==
    [COD_ACTE |-> "cod_acte", MENU_COD |-> "menu_cod", NOM_COURT |-> "nom_court",
     NOM_LONG |-> "nom_long", COD_AA |-> "cod_aa", ACTE_COD |-> "acte_cod",
     ACTIV_COD |-> "activ_cod", COD_AAP |-> "cod_aap", AA_COD |-> "aa_cod",
     PHASE_COD |-> "phase_cod", AAP_COD |-> "aap_cod", GRILLE_COD |-> "grille_cod",
     PU_BASE |-> "pu_base", APDT_MODIF |-> "apdt_modif", COD_MENU |-> "cod_menu",
     LIBELLE |-> "libelle", COD_PERE |-> "cod_pere", COD_ACTIV |-> "cod_activ",
     COD_GRILLE |-> "cod_grille", XOD_MENU |-> "xod_menu", XIBELLE |-> "xibelle",
     XOD_PERE |-> "xod_pere"]

\* The lower-cased field names of a table file, in field order.
ColumnsAsClaimed(file) == [j \in DOMAIN file.fields |-> LowerCased[file.fields[j]]]

\* C14: convert_dbf_to_df gives a table file with fields and no record a frame
\* of zero rows whose columns are the lower-cased field names in field order,
\* and a file with records a frame of one row per record with the same
\* columns: the columns do not depend on whether the file has records.
C14_ColumnsOfLoadedTables ==
    prog = "ccam" =>
        \A k \in DOMAIN TableFiles :
            LET df == self[TableFiles[k][1]]
                file == disk[TableFiles[k][2]]
            IN ~df.none =>
                  /\ df.columns = ColumnsAsClaimed(file)
                  /\ Len(df.rows) = Len(file.records)
                  /\ \A j \in DOMAIN df.rows :
                        DOMAIN df.rows[j] = Range(ColumnsAsClaimed(file))

\* Tables loaded from a menu file without records and from a procedure file
\* with records.
C14_Witness ==
    /\ prog = "ccam" /\ pc = "loaded"
    /\ disk["R_MENU.dbf"].records = <<>>
    /\ self.df_menu.rows = <<>>
    /\ self.df_menu.columns = <<"cod_menu", "libelle", "cod_pere">>
    /\ self.df_acte.rows # <<>>

\* C15: get_menu_hierarchy_path ends for every menu table and starting code,
\* a row that is its own parent and a cycle of parents included, and its path
\* holds no menu code twice.  The loop goes on from current alone, so a walk
\* that ends enters no code twice: its path never holds a code twice and never
\* holds more entries than the menu table has rows.
C15_WalkVisitsNoCodeTwice ==
    /\ \A j, k \in DOMAIN call.visited : j # k => call.visited[j] # call.visited[k]
    /\ call.pc # "idle" => Len(call.path) <= Len(self.df_menu.rows)

\* The rows of the menu table with a given code.
RowsOf(cod) == {k \in DOMAIN self.df_menu.rows : self.df_menu.rows[k].cod_menu = cod}

ParentOf(cod) == self.df_menu.rows[CHOOSE k \in RowsOf(cod) : TRUE].cod_pere

\* Whether following the parent pointers from a code ends, at code 0 or at a
\* code without a row, within n steps.
RECURSIVE EndsWithin(_, _)
EndsWithin(cod, n) ==
    \/ cod = 0
    \/ RowsOf(cod) = {}
    \/ n > 0 /\ EndsWithin(ParentOf(cod), n - 1)

\* The menu table is a rooted tree: one row per code, every row has a parent
\* code, and every walk upward ends at code 0 or at a code without a row.
RootedTree ==
    /\ \A k \in DOMAIN self.df_menu.rows : self.df_menu.rows[k].cod_pere # NULL
    /\ \A k \in DOMAIN self.df_menu.rows : Cardinality(RowsOf(self.df_menu.rows[k].cod_menu)) = 1
    /\ \A k \in DOMAIN self.df_menu.rows :
          EndsWithin(self.df_menu.rows[k].cod_menu, Len(self.df_menu.rows))

\* The entries '<code>_<label>' of a code and of its ancestors, topmost first.
RECURSIVE AncestorEntries(_)
AncestorEntries(cod) ==
    IF cod = 0 \/ cod = NULL \/ RowsOf(cod) = {} THEN <<>>
    ELSE Append(AncestorEntries(ParentOf(cod)),
                ToString(cod) \o "_" \o
                Str(self.df_menu.rows[CHOOSE k \in RowsOf(cod) : TRUE].libelle))

\* Entries joined by ' > ', built from the last entry backwards.
RECURSIVE ArrowJoined(_)
ArrowJoined(entries) ==
    IF Len(entries) = 1 THEN entries[1]
    ELSE ArrowJoined(SubSeq(entries, 1, Len(entries) - 1)) \o " > " \o entries[Len(entries)]

\* C9: on a menu table that is a rooted tree, get_menu_hierarchy_path(c)
\* returns the entries '<code>_<label>' of c and of its ancestors, from the
\* topmost ancestor down to c, joined by ' > ', stopping at parent code 0 or at
\* a parent without a row; on any table it returns 'SANS_MENU' when c is 0, is
\* None or has no row.
C9_HierarchyPath ==
    call.pc = "returned" =>
        /\ RootedTree =>
              call.ret = IF AncestorEntries(call.menu_cod) = <<>> THEN "SANS_MENU"
                         ELSE ArrowJoined(AncestorEntries(call.menu_cod))
        /\ (call.menu_cod \in {0, NULL} \/ RowsOf(call.menu_cod) = {}) =>
              call.ret = "SANS_MENU"

\* The walk from code 2 over the rows (1, 'A', parent 0) and (2, 'b', parent 1)
\* has returned '1_A > 2_b'.
C9_Witness ==
    /\ call.pc = "returned"
    /\ call.menu_cod = 2
    /\ RootedTree
    /\ Len(self.df_menu.rows) = 2
    /\ call.ret = "1_A > 2_b"

====
